---- MODULE Spec2Model ----
(***************************************************************************)
(* Model of dynamic-gantt-sheet.py: the pipeline run by main()             *)
(*   aggregate_data -> allocate_poles -> perform_scheduling ->             *)
(*   build_gantt_from_scratch                                              *)
(* over the rows of the master task list and the two lookup maps.          *)
(*                                                                         *)
(* Conventions.                                                            *)
(*  - A cell that may be empty is <<>> (Python None) or <<v>>.             *)
(*  - Pole counts are whole numbers of poles (Python floats holding        *)
(*    integers); POLES_PER_DAY is kept in tenths of a pole, so 1.2 is 12   *)
(*    and poles / POLES_PER_DAY is (10 * poles) / 12.                      *)
(*  - A datetime is an integer number of clock ticks; one day is           *)
(*    TicksPerDay ticks, timedelta(days = k) is k * TicksPerDay, and       *)
(*    strftime('%Y-%m-%d') is the day number t \div TicksPerDay.           *)
(***************************************************************************)
EXTENDS Integers, Sequences, FiniteSets, TLC

VARIABLES
    rows,            \* task_list_sheet.rows: the master task list
    wr_to_resource,  \* {WR # -> resource name}
    scope_to_poles,  \* {Scope # -> total poles}
    rate,            \* the configured POLES_PER_DAY, in tenths of a pole
    clock,           \* the wall clock read by datetime.now()
    pc,              \* position of main()
    all_jobs,        \* the list of Job objects
    warnings,        \* rows for which logging.warning was called (line 131)
    scope_idx,       \* position of the loop of allocate_poles (line 154)
    crew_idx,        \* position of the loop of perform_scheduling (line 176)
    sheet_rows       \* what build_gantt_from_scratch sent to the target sheet

vars == <<rows, wr_to_resource, scope_to_poles, rate, clock, pc, all_jobs,
          warnings, scope_idx, crew_idx, sheet_rows>>

----------------------------------------------------------------------------
(* Bounds *)

MaxRows == 3
MaxClock == 2
TicksPerDay == 2

(* Program constants *)

POLES_PER_DAY == 12
DEFAULT_PLACEMENT == 9999
PLACEHOLDER_CREW == "Ramp-Up Crew (Estimate)"

----------------------------------------------------------------------------
(* Optional values and Python arithmetic *)

None == <<>>
Some(v) == <<v>>
Val(o) == o[1]

\* Python's  x or d  for a numeric cell: None and 0 are both falsy.
OrDefault(o, d) == IF o = None \/ Val(o) = 0 THEN d ELSE Val(o)

\* math.ceil(a / b) for b # 0
CeilDiv(a, b) == IF b > 0 THEN -((-a) \div b) ELSE -(a \div (-b))

RECURSIVE Distinct(_)
\* the keys of a defaultdict filled by one pass over s, in insertion order
Distinct(s) ==
    IF s = <<>> THEN <<>>
    ELSE LET r == Distinct(SubSeq(s, 1, Len(s) - 1))
             x == s[Len(s)]
         IN  IF \E i \in 1..Len(r) : r[i] = x THEN r ELSE Append(r, x)

----------------------------------------------------------------------------
(* class Job *)

Job(wr, scope, phase, crew, placement, poles) ==
    [wr |-> wr, scope |-> scope, phase |-> phase, crew |-> crew,
     placement |-> OrDefault(placement, DEFAULT_PLACEMENT),
     poles |-> OrDefault(poles, 0),
     start_date |-> None, end_date |-> None]

\* Job.duration_days raises ZeroDivisionError
duration_raises(job, r) == job.poles > 0 /\ r = 0

duration_days(job, r) ==
    IF job.poles > 0 THEN CeilDiv(10 * job.poles, r) ELSE 0

----------------------------------------------------------------------------
(* aggregate_data *)

RECURSIVE aggregate_jobs(_, _, _)
\* the list all_jobs after the loop of aggregate_data has read rows 1..n
aggregate_jobs(rws, res, n) ==
    IF n = 0 THEN <<>>
    ELSE LET prev == aggregate_jobs(rws, res, n - 1)
             row == rws[n]
         IN  IF row.wr = None THEN prev
             ELSE IF row.scope = None \/ row.phase = None THEN prev
             ELSE Append(prev,
                    Job(Val(row.wr), Val(row.scope), Val(row.phase),
                        IF Val(row.wr) \in DOMAIN res
                            THEN res[Val(row.wr)] ELSE PLACEHOLDER_CREW,
                        row.placement, row.poles))

RECURSIVE aggregate_warnings(_, _)
\* the rows for which the loop of aggregate_data logged a warning
aggregate_warnings(rws, n) ==
    IF n = 0 THEN <<>>
    ELSE LET prev == aggregate_warnings(rws, n - 1)
             row == rws[n]
         IN  IF row.wr = None THEN prev
             ELSE IF row.scope = None \/ row.phase = None
                  THEN Append(prev, n)
             ELSE prev

----------------------------------------------------------------------------
(* allocate_poles *)

RECURSIVE SumPoles(_, _)
\* sum(job.poles for job in jobs if job.poles), over the jobs at indices S
SumPoles(jobs, S) ==
    IF S = {} THEN 0
    ELSE LET i == CHOOSE k \in S : TRUE
         IN  jobs[i].poles + SumPoles(jobs, S \ {i})

\* jobs_by_scope.keys(): the scopes in order of first appearance
ScopeOrder(jobs) == Distinct([i \in 1..Len(jobs) |-> jobs[i].scope])

\* scope_to_poles.get(scope, 0)
TotalPoles(totals, scope) ==
    IF scope \in DOMAIN totals THEN totals[scope] ELSE 0

\* allocate_scope with the share rounded down instead of up
allocate_scope_floor(jobs, totals, scope) ==
    LET total_poles == TotalPoles(totals, scope)
        members == {i \in 1..Len(jobs) : jobs[i].scope = scope}
        assigned_poles == SumPoles(jobs, {i \in members : jobs[i].poles # 0})
        jobs_to_allocate == {i \in members : jobs[i].poles = 0}
        remaining_poles == total_poles - assigned_poles
    IN  IF total_poles = 0 THEN jobs
        ELSE IF jobs_to_allocate = {} THEN jobs
        ELSE IF remaining_poles > 0
             THEN [i \in 1..Len(jobs) |->
                     IF i \in jobs_to_allocate
                     THEN [jobs[i] EXCEPT !.poles =
                             remaining_poles \div Cardinality(jobs_to_allocate)]
                     ELSE jobs[i]]
        ELSE jobs

\* allocate_scope without the test  remaining_poles > 0
allocate_scope_unguarded(jobs, totals, scope) ==
    LET total_poles == TotalPoles(totals, scope)
        members == {i \in 1..Len(jobs) : jobs[i].scope = scope}
        assigned_poles == SumPoles(jobs, {i \in members : jobs[i].poles # 0})
        jobs_to_allocate == {i \in members : jobs[i].poles = 0}
        remaining_poles == total_poles - assigned_poles
    IN  IF total_poles = 0 THEN jobs
        ELSE IF jobs_to_allocate = {} THEN jobs
        ELSE [i \in 1..Len(jobs) |->
                IF i \in jobs_to_allocate
                THEN [jobs[i] EXCEPT !.poles =
                        CeilDiv(remaining_poles, Cardinality(jobs_to_allocate))]
                ELSE jobs[i]]

\* allocate_scope giving the share to every job of the scope
allocate_scope_everyone(jobs, totals, scope) ==
    LET total_poles == TotalPoles(totals, scope)
        members == {i \in 1..Len(jobs) : jobs[i].scope = scope}
        assigned_poles == SumPoles(jobs, {i \in members : jobs[i].poles # 0})
        jobs_to_allocate == members
        remaining_poles == total_poles - assigned_poles
    IN  IF total_poles = 0 THEN jobs
        ELSE IF jobs_to_allocate = {} THEN jobs
        ELSE IF remaining_poles > 0
             THEN [i \in 1..Len(jobs) |->
                     IF i \in jobs_to_allocate
                     THEN [jobs[i] EXCEPT !.poles =
                             CeilDiv(remaining_poles, Cardinality(jobs_to_allocate))]
                     ELSE jobs[i]]
        ELSE jobs

\* one iteration of the loop "for scope, jobs in jobs_by_scope.items()"
allocate_scope(jobs, totals, scope) ==
    LET total_poles == TotalPoles(totals, scope)
        members == {i \in 1..Len(jobs) : jobs[i].scope = scope}
        assigned_poles == SumPoles(jobs, {i \in members : jobs[i].poles # 0})
        jobs_to_allocate == {i \in members : jobs[i].poles = 0}
        remaining_poles == total_poles - assigned_poles
    IN  IF total_poles = 0 THEN jobs
        ELSE IF jobs_to_allocate = {} THEN jobs
        ELSE IF remaining_poles > 0
             THEN [i \in 1..Len(jobs) |->
                     IF i \in jobs_to_allocate
                     THEN [jobs[i] EXCEPT !.poles =
                             CeilDiv(remaining_poles, Cardinality(jobs_to_allocate))]
                     ELSE jobs[i]]
        ELSE jobs

RECURSIVE allocate_loop(_, _, _)
\* the loop of allocate_poles over the scopes order[1..n]
allocate_loop(jobs, totals, order) ==
    IF order = <<>> THEN jobs
    ELSE allocate_loop(allocate_scope(jobs, totals, Head(order)),
                       totals, Tail(order))

\* allocate_poles(all_jobs, scope_to_poles), as the list it leaves behind
allocate_poles(jobs, totals) ==
    IF jobs = <<>> THEN jobs
    ELSE allocate_loop(jobs, totals, ScopeOrder(jobs))

----------------------------------------------------------------------------
(* perform_scheduling *)

\* crews.keys(): the crews in order of first appearance
CrewOrder(jobs) == Distinct([i \in 1..Len(jobs) |-> jobs[i].crew])

\* i comes before j in sorted(jobs, key = lambda j: j.placement); the sort
\* is stable and the jobs of a crew are listed in the order of all_jobs
SortsBefore(jobs, i, j) ==
    \/ jobs[i].placement < jobs[j].placement
    \/ jobs[i].placement = jobs[j].placement /\ i < j

RECURSIVE sorted_jobs(_, _)
\* the indices S of all_jobs in the order of sorted(jobs, key = placement)
sorted_jobs(jobs, S) ==
    IF S = {} THEN <<>>
    ELSE LET m == CHOOSE i \in S : \A j \in S \ {i} : SortsBefore(jobs, i, j)
         IN  <<m>> \o sorted_jobs(jobs, S \ {m})

\* schedule_job with the cursor left on the end date
schedule_job_overlap(job, current_date, r) ==
    LET duration == duration_days(job, r)
    IN  IF duration > 0
        THEN LET end == current_date + (duration - 1) * TicksPerDay
             IN  [job |-> [job EXCEPT !.start_date = Some(current_date),
                                      !.end_date = Some(end)],
                  current_date |-> end]
        ELSE [job |-> job, current_date |-> current_date]

\* schedule_job that also gives dates to jobs of duration 0
schedule_job_zero(job, current_date, r) ==
    LET duration == duration_days(job, r)
    IN  IF duration >= 0
        THEN LET end == current_date + (duration - 1) * TicksPerDay
             IN  [job |-> [job EXCEPT !.start_date = Some(current_date),
                                      !.end_date = Some(end)],
                  current_date |-> end + TicksPerDay]
        ELSE [job |-> job, current_date |-> current_date]

\* the body of "for job in sorted_jobs" (lines 180-184): the job and the
\* cursor it leaves
schedule_job(job, current_date, r) ==
    LET duration == duration_days(job, r)
    IN  IF duration > 0
        THEN LET end == current_date + (duration - 1) * TicksPerDay
             IN  [job |-> [job EXCEPT !.start_date = Some(current_date),
                                      !.end_date = Some(end)],
                  current_date |-> end + TicksPerDay]
        ELSE [job |-> job, current_date |-> current_date]

RECURSIVE schedule_loop(_, _, _, _)
\* the loop "for job in sorted_jobs" over the indices in order
schedule_loop(jobs, order, current_date, r) ==
    IF order = <<>> THEN jobs
    ELSE LET step == schedule_job(jobs[Head(order)], current_date, r)
         IN  schedule_loop([jobs EXCEPT ![Head(order)] = step.job],
                           Tail(order), step.current_date, r)

\* one iteration of "for crew_name, jobs in crews.items()", with now the
\* value datetime.now() returns in it
schedule_crew(jobs, crew_name, now, r) ==
    schedule_loop(jobs,
                  sorted_jobs(jobs, {i \in 1..Len(jobs) : jobs[i].crew = crew_name}),
                  now, r)

\* the iteration for crew_name ends in a ZeroDivisionError; the first job
\* that raises comes after jobs of duration 0 only, so no date was written
crew_raises(jobs, crew_name, r) ==
    \E i \in 1..Len(jobs) : jobs[i].crew = crew_name /\ duration_raises(jobs[i], r)

----------------------------------------------------------------------------
(* build_gantt_from_scratch *)

\* datetime.strftime('%Y-%m-%d')
strftime(d) == IF d = None THEN None ELSE Some(Val(d) \div TicksPerDay)

\* the work-request rows sent to the target sheet, one per job; the
\* scope and phase parent rows carry no job data
wr_rows(jobs) ==
    {[wr |-> jobs[i].wr, scope |-> jobs[i].scope, phase |-> jobs[i].phase,
      poles |-> jobs[i].poles,
      start |-> strftime(jobs[i].start_date),
      end |-> strftime(jobs[i].end_date)] : i \in 1..Len(jobs)}

----------------------------------------------------------------------------
(* The inputs of a run *)

\* the master task list: n rows whose cells are drawn from cells; a row
\* that has a Work Request # carries its own row number there
TaskLists(cells, n) ==
    {[i \in 1..n |-> [c[i] EXCEPT !.wr = IF c[i].wr = None THEN None ELSE Some(i)]] :
        c \in [1..n -> cells]}

\* the resource lookup sheet: some of the work requests are assigned
ResourceMaps(n, crews) ==
    UNION {[D -> crews] : D \in SUBSET (1..n)}

\* the total-poles sheet over the scopes S with the totals T
PoleMaps(S, T) ==
    UNION {[D -> T] : D \in SUBSET S}

\* rows that differ in placement and crew, all of scope S1
SchedulingCells ==
    [wr : {Some(0)}, scope : {Some("S1")}, phase : {Some("P1")},
     placement : {None, Some(0), Some(1), Some(10000)},
     poles : {None, Some(2)}]

\* rows that differ in scope and pole count, all of the placeholder crew
AllocationCells ==
    [wr : {Some(0)}, scope : {Some("S1"), Some("S2")}, phase : {Some("P1")},
     placement : {None},
     poles : {None, Some(0), Some(2), Some(-3)}]

\* rows that may lack the work request, the scope or the phase
AggregationCells ==
    [wr : {None, Some(0)}, scope : {None, Some("S1")}, phase : {None, Some("P1")},
     placement : {None, Some(1)},
     poles : {Some(2)}]

\* rows of one scope with or without a pole count
ConfigCells ==
    [wr : {Some(0)}, scope : {Some("S1")}, phase : {Some("P1")},
     placement : {None},
     poles : {None, Some(2)}]

InitRun ==
    /\ clock = 0
    /\ pc = "aggregate"
    /\ all_jobs = <<>>
    /\ warnings = <<>>
    /\ scope_idx = 1
    /\ crew_idx = 1
    /\ sheet_rows = None

InitInputs ==
    \E n \in 1..MaxRows :
        \/ /\ rows \in TaskLists(SchedulingCells, n)
           /\ wr_to_resource \in ResourceMaps(n, {"Crew A"})
           /\ scope_to_poles = <<>>
        \/ /\ rows \in TaskLists(AllocationCells, n)
           /\ wr_to_resource = <<>>
           /\ scope_to_poles \in
                {[S1 |-> t] : t \in {0, -2, 3, 5}}
                    \cup {[S1 |-> 5, S2 |-> 3], [S1 |-> 5, S2 |-> -2], [S2 |-> 3]}
        \/ /\ rows \in TaskLists(AggregationCells, n)
           /\ wr_to_resource = <<>>
           /\ scope_to_poles = [S1 |-> 5]

Init ==
    /\ InitInputs
    /\ rate = POLES_PER_DAY
    /\ InitRun

\* a run under any configured rate, the non-positive ones included
InitCfg ==
    /\ \E n \in 1..MaxRows :
        /\ rows \in TaskLists(ConfigCells, n)
        /\ wr_to_resource \in ResourceMaps(n, {"Crew A"})
        /\ scope_to_poles \in {<<>>, [S1 |-> 3]}
    /\ rate \in {-POLES_PER_DAY, 0, POLES_PER_DAY}
    /\ InitRun

----------------------------------------------------------------------------
(* main *)

\* all_jobs = aggregate_data(client, col_maps, wr_to_resource)
AggregateData ==
    /\ pc = "aggregate"
    /\ all_jobs' = aggregate_jobs(rows, wr_to_resource, Len(rows))
    /\ warnings' = aggregate_warnings(rows, Len(rows))
    \* allocate_poles and perform_scheduling return at once on an empty list
    /\ pc' = IF all_jobs' = <<>> THEN "build" ELSE "allocate"
    /\ UNCHANGED <<rows, wr_to_resource, scope_to_poles, rate, clock,
                   scope_idx, crew_idx, sheet_rows>>

\* one iteration of the loop of allocate_poles
AllocateScope ==
    /\ pc = "allocate"
    /\ LET order == ScopeOrder(all_jobs)
       IN  /\ all_jobs' = allocate_scope(all_jobs, scope_to_poles, order[scope_idx])
           /\ IF scope_idx = Len(order)
              THEN pc' = "schedule" /\ scope_idx' = scope_idx
              ELSE pc' = pc /\ scope_idx' = scope_idx + 1
    /\ UNCHANGED <<rows, wr_to_resource, scope_to_poles, rate, clock,
                   warnings, crew_idx, sheet_rows>>

\* time passes while perform_scheduling runs
Tick ==
    /\ pc = "schedule"
    /\ clock < MaxClock
    /\ clock' = clock + 1
    /\ UNCHANGED <<rows, wr_to_resource, scope_to_poles, rate, pc, all_jobs,
                   warnings, scope_idx, crew_idx, sheet_rows>>

\* one iteration of the loop of perform_scheduling
ScheduleCrew ==
    /\ pc = "schedule"
    /\ LET order == CrewOrder(all_jobs)
       IN  IF crew_raises(all_jobs, order[crew_idx], rate)
           THEN /\ pc' = "crashed"
                /\ UNCHANGED <<all_jobs, crew_idx>>
           ELSE /\ all_jobs' = schedule_crew(all_jobs, order[crew_idx], clock, rate)
                /\ IF crew_idx = Len(order)
                   THEN pc' = "build" /\ crew_idx' = crew_idx
                   ELSE pc' = pc /\ crew_idx' = crew_idx + 1
    /\ UNCHANGED <<rows, wr_to_resource, scope_to_poles, rate, clock,
                   warnings, scope_idx, sheet_rows>>

\* build_gantt_from_scratch(client, all_jobs, col_maps)
BuildGantt ==
    /\ pc = "build"
    /\ sheet_rows' = IF all_jobs = <<>> THEN None ELSE Some(wr_rows(all_jobs))
    /\ pc' = "done"
    /\ UNCHANGED <<rows, wr_to_resource, scope_to_poles, rate, clock,
                   all_jobs, warnings, scope_idx, crew_idx>>

Next ==
    \/ AggregateData
    \/ AllocateScope
    \/ Tick
    \/ ScheduleCrew
    \/ BuildGantt

Spec == Init /\ [][Next]_vars

SpecCfg == InitCfg /\ [][Next]_vars

----------------------------------------------------------------------------
(* Vocabulary of the properties *)

Jobs == 1..Len(all_jobs)

\* the cells of the task-list row a job was built from
RowOf(i) == rows[all_jobs[i].wr]

\* the pole count a job was constructed with
ConstructedPoles(i) == OrDefault(RowOf(i).poles, 0)

Scheduled(i) == all_jobs[i].start_date # None

SameCrew(i, j) == all_jobs[i].crew = all_jobs[j].crew

StartOf(i) == Val(all_jobs[i].start_date)

EndOf(i) == Val(all_jobs[i].end_date)

\* the loop of allocate_poles has handled scope s
ScopeDone(s) ==
    \/ pc \in {"schedule", "build", "done", "crashed"} /\ all_jobs # <<>>
    \/ /\ pc = "allocate"
       /\ \E k \in 1..(scope_idx - 1) : ScopeOrder(all_jobs)[k] = s

AllocationDone ==
    pc \in {"schedule", "build", "done", "crashed"} /\ all_jobs # <<>>

\* the jobs of scope s constructed without a pole count, and with one
Unassigned(s) == {i \in Jobs : all_jobs[i].scope = s /\ ConstructedPoles(i) = 0}

Known(s) == {i \in Jobs : all_jobs[i].scope = s /\ ConstructedPoles(i) # 0}

RECURSIVE SumOver(_, _)
SumOver(f, S) ==
    IF S = {} THEN 0
    ELSE LET i == CHOOSE k \in S : TRUE IN f[i] + SumOver(f, S \ {i})

\* total of scope s less the pole counts the jobs of s were constructed with
Remainder(s) ==
    TotalPoles(scope_to_poles, s)
        - SumOver([i \in Jobs |-> ConstructedPoles(i)], Known(s))

Scopes == {all_jobs[i].scope : i \in Jobs}

\* a and b received dates and no dated job of their crew sorts between them
ConsecutiveScheduled(a, b) ==
    /\ a # b /\ SameCrew(a, b) /\ Scheduled(a) /\ Scheduled(b)
    /\ SortsBefore(all_jobs, a, b)
    /\ ~ \E c \in Jobs \ {a, b} :
            /\ SameCrew(a, c) /\ Scheduled(c)
            /\ SortsBefore(all_jobs, a, c) /\ SortsBefore(all_jobs, c, b)

\* a is the first job of its crew to receive dates
FirstScheduled(a) ==
    /\ Scheduled(a)
    /\ ~ \E c \in Jobs \ {a} :
            SameCrew(a, c) /\ Scheduled(c) /\ SortsBefore(all_jobs, c, a)

\* the placement of a job as its input record carries it, absent counting
\* as the sentinel
RecordPlacement(i) ==
    IF RowOf(i).placement = None THEN DEFAULT_PLACEMENT
    ELSE Val(RowOf(i).placement)

\* the task-list row n lacks the work request, the scope or the phase
Incomplete(n) ==
    rows[n].wr = None \/ rows[n].scope = None \/ rows[n].phase = None

----------------------------------------------------------------------------
(* Properties *)

\* C1. Cascading contiguity: two jobs of one crew that both received dates
\* and are consecutive among the dated jobs in the crew's sort order satisfy
\* b.start = a.end + 1 day; jobs of duration 0 between them open no gap.
C1_CascadingContiguity ==
    \A a \in Jobs : \A b \in Jobs :
        ConsecutiveScheduled(a, b) => StartOf(b) = EndOf(a) + TicksPerDay

\* a dated job, a job of duration 0 and a dated job, in this sort order,
\* in one crew
C1_Witness ==
    \E a \in Jobs : \E b \in Jobs : \E c \in Jobs :
        /\ ConsecutiveScheduled(a, b)
        /\ SameCrew(a, c) /\ ~Scheduled(c)
        /\ SortsBefore(all_jobs, a, c) /\ SortsBefore(all_jobs, c, b)
        /\ pc = "done"

\* C2. Ordering fidelity: within one crew the dated jobs start in
\* non-decreasing order of the placement their input record carries (absent
\* counting as the sentinel), ties in input order, for every integer
\* placement, 0 included.
C2_OrderingFidelity ==
    \A a \in Jobs : \A b \in Jobs :
        ( /\ a # b /\ SameCrew(a, b) /\ Scheduled(a) /\ Scheduled(b)
          /\ \/ RecordPlacement(a) < RecordPlacement(b)
             \/ RecordPlacement(a) = RecordPlacement(b) /\ a < b )
        => StartOf(a) < StartOf(b)

\* C3. Conservation-with-rounding: once allocate_poles has handled a scope
\* with a positive total, some job without a quantity and a remainder > 0,
\* every such job holds ceil(remainder / count), so the newly assigned sum is
\* count * ceil(remainder / count), at least the remainder and less than
\* remainder + count.
C3_ConservationWithRounding ==
    \A s \in Scopes :
        ( /\ ScopeDone(s)
          /\ TotalPoles(scope_to_poles, s) > 0
          /\ Unassigned(s) # {}
          /\ Remainder(s) > 0 )
        => LET n == Cardinality(Unassigned(s))
               share == CeilDiv(Remainder(s), n)
               newsum == SumOver([i \in Jobs |-> all_jobs[i].poles], Unassigned(s))
           IN  /\ \A u \in Unassigned(s) : all_jobs[u].poles = share
               /\ newsum = n * share
               /\ newsum >= Remainder(s)
               /\ newsum < Remainder(s) + n

\* a handled scope whose remainder does not divide evenly among its
\* unassigned jobs
C3_Witness ==
    \E s \in Scopes :
        /\ ScopeDone(s)
        /\ TotalPoles(scope_to_poles, s) > 0
        /\ Cardinality(Unassigned(s)) >= 2
        /\ Remainder(s) > 0
        /\ Remainder(s) % Cardinality(Unassigned(s)) # 0
        /\ \A u \in Unassigned(s) : all_jobs[u].poles > 0

\* C4. Scheduler determinism: the cursor of every crew starts at the one
\* reference time of the run, so the first dated job of every crew starts at
\* the same time.
C4_OneReferenceTime ==
    \A a \in Jobs : \A b \in Jobs :
        (FirstScheduled(a) /\ FirstScheduled(b)) => StartOf(a) = StartOf(b)

\* C5. Zero-duration exclusion: after the pipeline, a job of quantity 0 has
\* neither date and a job of quantity > 0 has both, with
\* end = start + (duration - 1) days >= start.
C5_ZeroDurationExclusion ==
    pc \in {"build", "done"} =>
        \A i \in Jobs :
            /\ all_jobs[i].poles = 0 =>
                all_jobs[i].start_date = None /\ all_jobs[i].end_date = None
            /\ all_jobs[i].poles > 0 =>
                /\ all_jobs[i].start_date # None
                /\ all_jobs[i].end_date # None
                /\ EndOf(i) >= StartOf(i)
                /\ EndOf(i) = StartOf(i)
                     + (CeilDiv(10 * all_jobs[i].poles, POLES_PER_DAY) - 1) * TicksPerDay

\* a finished run with a job of quantity 0 and a dated job in one crew
C5_Witness ==
    /\ pc = "done"
    /\ \E i \in Jobs : \E j \in Jobs :
        /\ SameCrew(i, j)
        /\ all_jobs[i].poles = 0 /\ ~Scheduled(i)
        /\ all_jobs[j].poles > 0 /\ Scheduled(j)

\* C6. Validation: every row that lacks the work request, the scope or the
\* phase is kept out of the job list and reported with a warning, and the
\* other rows are processed.
C6_Validation ==
    pc # "aggregate" =>
        /\ \A i \in Jobs : ~Incomplete(all_jobs[i].wr)
        /\ Len(all_jobs) = Cardinality({n \in 1..Len(rows) : ~Incomplete(n)})
        /\ \A n \in 1..Len(rows) :
            Incomplete(n) => \E k \in 1..Len(warnings) : warnings[k] = n

\* C7. Configuration error: with a rate <= 0 the run stops before
\* scheduling: perform_scheduling never completes, no job receives a date
\* and nothing reaches the output step.
C7_ConfigurationError ==
    rate <= 0 =>
        /\ pc \notin {"build", "done"}
        /\ \A i \in Jobs : ~Scheduled(i) /\ all_jobs[i].end_date = None
        /\ sheet_rows = None

\* C8. Non-negativity: a job constructed with an absent or non-negative
\* quantity never has a negative quantity, whatever the totals; where the
\* remainder of a handled scope is <= 0 its unassigned jobs stay at 0.
C8_NonNegativity ==
    /\ \A i \in Jobs : ConstructedPoles(i) >= 0 => all_jobs[i].poles >= 0
    /\ \A s \in Scopes :
        (ScopeDone(s) /\ Remainder(s) <= 0)
            => \A u \in Unassigned(s) : all_jobs[u].poles = 0

\* a finished run with a scope whose total is not 0, whose remainder is
\* negative and which has a job without a quantity
C8_Witness ==
    /\ pc = "done"
    /\ \E s \in Scopes :
        /\ TotalPoles(scope_to_poles, s) # 0
        /\ Remainder(s) < 0
        /\ Unassigned(s) # {}

\* C9. Allocator idempotence: running allocate_poles again on the result of
\* a run changes no quantity, also where unassigned jobs were left at 0, and
\* no run changes a quantity known at construction.
C9_AllocatorIdempotence ==
    /\ AllocationDone => allocate_poles(all_jobs, scope_to_poles) = all_jobs
    /\ \A i \in Jobs :
        ConstructedPoles(i) # 0 => all_jobs[i].poles = ConstructedPoles(i)

\* after a run that filled one scope and left the unassigned job of another
\* scope, whose total is not 0, at 0
C9_Witness ==
    /\ AllocationDone
    /\ \E i \in Jobs : ConstructedPoles(i) = 0 /\ all_jobs[i].poles > 0
    /\ \E j \in Jobs :
        /\ ConstructedPoles(j) = 0 /\ all_jobs[j].poles = 0
        /\ TotalPoles(scope_to_poles, all_jobs[j].scope) # 0
    /\ \E k \in Jobs : ConstructedPoles(k) # 0

\* C10. Absent placement sorts last: a job whose record carries no placement
\* is dated after every job of its crew whose record carries an integer
\* placement, whatever the integer.
C10_AbsentPlacementLast ==
    \A a \in Jobs : \A b \in Jobs :
        ( /\ SameCrew(a, b) /\ Scheduled(a) /\ Scheduled(b)
          /\ RowOf(a).placement = None
          /\ RowOf(b).placement # None )
        => StartOf(b) < StartOf(a)

====
